---- MODULE Spec2Model ----
(***************************************************************************)
(* The asynchronous review-job lifecycle of the AI code review system:     *)
(* the submit endpoint (app/main.py), the job table (app/models.py), the   *)
(* Celery queue and the worker task analyze_github_pr (app/tasks.py) with  *)
(* the source provider (app/github_service.py) and the analysis provider   *)
(* (app/ai_reviewer.py).                                                   *)
(*                                                                         *)
(* Name resolution.  tasks.py calls AICodeReviewer._is_code_file and       *)
(* AICodeReviewer.analyze_pr; the class in app/ai_reviewer.py spells the   *)
(* suffix test inline (line 97) and names its aggregation review_pr_files  *)
(* (lines 90-134).  The calls are modelled by that code.  tasks.py reads   *)
(* settings.OPENAI_API_KEY, which app/config.py sets as OPENAI_API_KEY.    *)
(* The job table declares no generator for task_id; the store's fresh      *)
(* identifier is modelled from the specification (NewTaskId).              *)
(*                                                                         *)
(* One worker process runs the task (the single logical worker of the      *)
(* concurrency model); its run is split at the task's blocking calls and   *)
(* commits, which are the points another process can observe.              *)
(*                                                                         *)
(* Specifications.  Spec is the submit endpoint, the queue and the worker  *)
(* under every provider answer for lists of up to MaxFiles files.  The     *)
(* others take the same actions with other inputs: SpecSubmit (requests    *)
(* that differ in every field), SpecRead (the GET endpoints), SpecPipeline *)
(* (longer file lists and malformed analysis answers), SpecLive and        *)
(* SpecHang (progress of the worker under fairness).                       *)
(***************************************************************************)
EXTENDS Integers, Sequences, FiniteSets, TLC

VARIABLES
    store,            \* code_review_tasks: task_id -> row
    queue,            \* the Celery broker queue of analyze_github_pr messages
    req,              \* the request body of the last POST /analyze-pr
    resp,             \* the response of the last POST /analyze-pr
    answer,           \* the response of the last GET (status, results, tasks)
    apiKey,           \* settings.OPENAI_API_KEY is configured
    runs,             \* number of task runs started so far
    pc,               \* position of the worker inside analyze_github_pr
    msg,              \* arguments of the running task
    prior,            \* status the row had when the run started ("absent" if no row)
    pr_files,         \* tasks.py pr_files
    idx,              \* loop index of the current loop
    file_contents,    \* tasks.py file_contents (names that have content)
    files_reviews,    \* ai_reviewer.py files_reviews
    total_issues,     \* ai_reviewer.py total_issues
    critical_issues,  \* ai_reviewer.py critical_issues
    calls,            \* the provider calls of the current run and how each ended
    ret               \* how the last run ended: the value returned or the error raised

vars == <<store, queue, req, resp, answer, apiKey, runs, pc, msg, prior,
          pr_files, idx, file_contents, files_reviews, total_issues,
          critical_issues, calls, ret>>

locals == <<pr_files, idx, file_contents, files_reviews, total_issues,
            critical_issues>>

-----------------------------------------------------------------------------
(* Bounds *)

MaxJobs == 2
MaxRuns == 3
MaxFiles == 2
MaxIssues == 1

(* Program constants *)

FetchLimit == 10

-----------------------------------------------------------------------------
(* Values *)

Null == <<>>

GoodUrl == <<"https:", "", "github.com", "octo", "repo">>
BareUrl == <<"github.com">>
OtherUrl == <<"https:", "", "gitlab.com", "octo", "repo">>
Urls == {GoodUrl, BareUrl, OtherUrl}

PrNumbers == {7}
Tokens == {"none"}

UnknownId == 0

PENDING == "pending"
PROCESSING == "processing"
COMPLETED == "completed"
FAILED == "failed"
TaskStatus == {PENDING, PROCESSING, COMPLETED, FAILED}
Terminal == {COMPLETED, FAILED}

NonCodeSuffixes == {".md", ".txt", ".json", ".yaml", ".yml"}

FileNames == {[stem |-> "a", suffix |-> ".py"],
              [stem |-> "b", suffix |-> ".ts"],
              [stem |-> "README", suffix |-> ".md"]}

\* the entries of the provider's file list: a file name, and whether the
\* entry carries a patch
Files == [filename : FileNames, patch : {TRUE}]
             \cup {[filename |-> [stem |-> "b", suffix |-> ".ts"], patch |-> FALSE]}

Categories == {"bug", "style"}

RECURSIVE SeqsUpTo(_, _)
SeqsUpTo(S, n) ==
    IF n = 0 THEN {<<>>}
    ELSE LET shorter == SeqsUpTo(S, n - 1)
         IN  shorter \cup {Append(s, x) : s \in {t \in shorter : Len(t) = n - 1}, x \in S}

IssueLists == SeqsUpTo([type : Categories], MaxIssues)

FileLists ==
    {fs \in SeqsUpTo(Files, MaxFiles) :
        \A i, j \in 1..Len(fs) : i # j => fs[i].filename # fs[j].filename}

ListError == "403 Client Error: rate limit exceeded"
ContentError == "404 Client Error: Not Found"
InvalidUrlError == "Invalid GitHub URL"
IndexError == "list index out of range"
NoFilesError == "No files found in PR"
NoKeyError == "OPENAI_API_KEY not configured"
InvalidUrlDetail == "Invalid GitHub repository URL"

-----------------------------------------------------------------------------
(* Pure functions *)

\* "github.com" in repo_url
ContainsGithub(url) == \E i \in 1..Len(url) : url[i] = "github.com"

\* GitHubService._parse_repo_url: the error it raises, or Null
ParseRepoUrlError(url) ==
    IF ~ContainsGithub(url) THEN <<InvalidUrlError>>
    ELSE IF Len(url) < 2 THEN <<IndexError>>
    ELSE Null

\* file_info["filename"].endswith((".md", ".txt", ".json", ".yaml", ".yml"))
IsCodeFile(name) == name.suffix \notin NonCodeSuffixes

Min(a, b) == IF a < b THEN a ELSE b

\* an element of a returned "issues" list is a JSON object with a "type",
\* or some other JSON value (here a string), on which issue.get raises
IsDict(issue) == "type" \in DOMAIN issue

NonDictIssue == [string |-> "unused import"]

\* critical_issues += sum(1 for issue in issues if issue.get("type") == "bug")
RECURSIVE CountBugs(_)
CountBugs(issues) ==
    IF issues = <<>> THEN 0
    ELSE (IF Head(issues).type = "bug" THEN 1 ELSE 0) + CountBugs(Tail(issues))

\* the dict review_pr_files returns
ReviewResult(reviews, total, critical) ==
    [files |-> reviews,
     summary |-> [total_files |-> Len(reviews),
                  total_issues |-> total,
                  critical_issues |-> critical]]

\* the store's fresh identifier
NewTaskId == Cardinality(DOMAIN store) + 1

Exists(id) == id \in DOMAIN store

\* list: get_pr_files calls, content: get_file_content calls, analysis:
\* analyze_code calls; each entry records how the provider answered
NoCalls == [list |-> <<>>, content |-> <<>>, analysis |-> <<>>]

Call(name, reply) == [name |-> name, reply |-> reply]

NoReturn == [kind |-> "none", value |-> <<>>]

\* AnalyzePRRequest
Request(url, pr, token) == [repo_url |-> url, pr_number |-> pr, github_token |-> token]

NoRequest == Request(<<>>, 0, "none")

NoAnswer == [op |-> "none", arg |-> 0, code |-> 0, body |-> <<>>]

-----------------------------------------------------------------------------
Init ==
    /\ store = <<>>
    /\ queue = <<>>
    /\ req = NoRequest
    /\ resp = [code |-> 0, detail |-> "", task_id |-> UnknownId]
    /\ answer = NoAnswer
    /\ apiKey \in BOOLEAN
    /\ runs = 0
    /\ pc = "idle"
    /\ msg = [task_id |-> UnknownId, repo_url |-> GoodUrl, pr_number |-> 7,
              github_token |-> "none"]
    /\ prior = "absent"
    /\ pr_files = <<>>
    /\ idx = 0
    /\ file_contents = {}
    /\ files_reviews = <<>>
    /\ total_issues = 0
    /\ critical_issues = 0
    /\ calls = NoCalls
    /\ ret = NoReturn

-----------------------------------------------------------------------------
(* POST /analyze-pr (main.py analyze_pr) *)

Digits == <<"0", "1", "2", "3", "4", "5", "6", "7", "8", "9">>

\* str(request.pr_number)
RECURSIVE StrOfInt(_)
StrOfInt(n) == IF n < 10 THEN <<Digits[n + 1]>>
               ELSE StrOfInt(n \div 10) \o <<Digits[(n % 10) + 1]>>

\* datetime.utcnow at an insert.  Time is logical: the n-th insert reads a
\* later time than the ones before it.
InsertTime == Cardinality(DOMAIN store)

\* CodeReviewTask(repo_url=..., pr_number=str(...), status="pending");
\* created_at and updated_at take their column default
NewRow(url, pr) ==
    [repo_url |-> url, pr_number |-> StrOfInt(pr), status |-> PENDING,
     result |-> Null, error_message |-> Null,
     created_at |-> InsertTime, updated_at |-> InsertTime]

\* onupdate=datetime.utcnow: every UPDATE of a row moves its updated_at on
Touch(row) == [row EXCEPT !.updated_at = @ + 1]

Message(id, url, pr, token) ==
    [task_id |-> id, repo_url |-> url, pr_number |-> pr, github_token |-> token]

\* Faulty variant of SubmitRejected (sensitivity of C10): the row is added
\* and committed before the URL is validated.
SubmitRejectedAfterInsert(url) ==
    /\ ~ContainsGithub(url)
    /\ Cardinality(DOMAIN store) < MaxJobs
    /\ store' = store @@ (NewTaskId :> NewRow(url, 7))
    /\ resp' = [code |-> 500, detail |-> InvalidUrlDetail,
                task_id |-> UnknownId]
    /\ UNCHANGED queue

\* the validation raises HTTPException(400) inside the try block; the
\* handler's "except Exception" catches it and raises HTTPException(500)
SubmitRejected(url) ==
    /\ ~ContainsGithub(url)
    /\ resp' = [code |-> 500, detail |-> InvalidUrlDetail,
                task_id |-> UnknownId]
    /\ UNCHANGED <<store, queue>>

\* db.commit() raises: no row, nothing queued
SubmitCommitFails(url) ==
    /\ ContainsGithub(url)
    /\ resp' = [code |-> 500, detail |-> "commit failed", task_id |-> UnknownId]
    /\ UNCHANGED <<store, queue>>

\* analyze_github_pr.delay raises after the row was committed
SubmitDelayFails(url, pr) ==
    /\ ContainsGithub(url)
    /\ Cardinality(DOMAIN store) < MaxJobs
    /\ store' = store @@ (NewTaskId :> NewRow(url, pr))
    /\ resp' = [code |-> 500, detail |-> "broker unavailable", task_id |-> UnknownId]
    /\ UNCHANGED queue

\* Faulty variant of SubmitAccepted (sensitivity of C12): the response
\* carries the identifier of the row created before this one.
SubmitAcceptedStaleId(url, pr, token) ==
    /\ ContainsGithub(url)
    /\ Cardinality(DOMAIN store) < MaxJobs
    /\ runs + Len(queue) < MaxRuns
    /\ store' = store @@ (NewTaskId :> NewRow(url, pr))
    /\ queue' = Append(queue, Message(NewTaskId, url, pr, token))
    /\ resp' = [code |-> 200, detail |-> "PR analysis queued successfully",
                task_id |-> NewTaskId - 1]

\* Faulty variant of SubmitAccepted (sensitivity of C13): the task is
\* published without the request's github_token.
SubmitAcceptedTokenDropped(url, pr, token) ==
    /\ ContainsGithub(url)
    /\ Cardinality(DOMAIN store) < MaxJobs
    /\ runs + Len(queue) < MaxRuns
    /\ store' = store @@ (NewTaskId :> NewRow(url, pr))
    /\ queue' = Append(queue, Message(NewTaskId, url, pr, "none"))
    /\ resp' = [code |-> 200, detail |-> "PR analysis queued successfully",
                task_id |-> NewTaskId]

SubmitAccepted(url, pr, token) ==
    /\ ContainsGithub(url)
    /\ Cardinality(DOMAIN store) < MaxJobs
    /\ runs + Len(queue) < MaxRuns
    /\ store' = store @@ (NewTaskId :> NewRow(url, pr))
    /\ queue' = Append(queue, Message(NewTaskId, url, pr, token))
    /\ resp' = [code |-> 200, detail |-> "PR analysis queued successfully",
                task_id |-> NewTaskId]

\* the endpoint, for requests drawn from the given sets
SubmitFrom(urls, prs, tokens) ==
    /\ \E url \in urls, pr \in prs, token \in tokens :
          /\ req' = Request(url, pr, token)
          /\ \/ SubmitRejected(url)
             \/ SubmitCommitFails(url)
             \/ SubmitDelayFails(url, pr)
             \/ SubmitAccepted(url, pr, token)
    /\ UNCHANGED <<answer, apiKey, runs, pc, msg, prior, calls, ret>>
    /\ UNCHANGED locals

analyze_pr == SubmitFrom(Urls, PrNumbers, Tokens)

\* a producer other than the endpoint publishes the task for an id that has no row
DirectDelay ==
    /\ runs + Len(queue) < MaxRuns
    /\ \E url \in {GoodUrl}, pr \in PrNumbers, token \in Tokens :
          queue' = Append(queue, Message(UnknownId, url, pr, token))
    /\ UNCHANGED <<store, req, resp, answer, apiKey, runs, pc, msg, prior, calls, ret>>
    /\ UNCHANGED locals

-----------------------------------------------------------------------------
(* GET /status/{task_id}, GET /results/{task_id}, GET /tasks (main.py) *)

\* the identifiers a client may ask for
TaskIds == 0..MaxJobs

\* list_tasks(limit: int = 10)
DefaultLimit == 10
Limits == {1, DefaultLimit}

NotFound == [code |-> 404, body |-> <<"Task not found">>]

\* an exception no handler catches: the framework answers 500
ServerError == [code |-> 500, body |-> <<"Internal Server Error">>]

\* json.loads of a stored text (json.dumps wraps the value as text)
JsonLoads(text) == text.json

\* the columns of CodeReviewTask an instance loaded from the table carries
HasAttribute(row, name) == name \in DOMAIN row

GetStatusResponse(id) ==
    IF ~Exists(id) THEN NotFound
    ELSE [code |-> 200,
          body |-> <<[task_id |-> id, status |-> store[id].status,
                      created_at |-> store[id].created_at,
                      updated_at |-> store[id].updated_at]>>]

\* "if task.results:" reads an attribute; CodeReviewTask has the column
\* "result" and no attribute "results", so the read raises AttributeError
GetResultsResponse(id) ==
    IF ~Exists(id) THEN NotFound
    ELSE LET task == store[id]
             result == [task_id |-> id, status |-> task.status,
                        error_message |-> task.error_message]
         IN  IF ~HasAttribute(task, "results") THEN ServerError
             ELSE [code |-> 200,
                   body |-> <<IF task.results # Null
                              THEN result @@ [results |-> JsonLoads(task.results)]
                              ELSE result>>]

\* the id of the row that is n-th in order_by(created_at.desc())
NthNewest(n) ==
    CHOOSE id \in DOMAIN store :
        Cardinality({j \in DOMAIN store :
                        store[j].created_at > store[id].created_at}) = n - 1

ListTasksResponse(limit) ==
    [code |-> 200,
     body |-> [n \in 1..Min(limit, Cardinality(DOMAIN store)) |->
                  LET id == NthNewest(n)
                  IN  [task_id |-> id, repo_url |-> store[id].repo_url,
                       pr_number |-> store[id].pr_number,
                       status |-> store[id].status,
                       created_at |-> store[id].created_at,
                       updated_at |-> store[id].updated_at]]]

Answer(op, arg, response) ==
    [op |-> op, arg |-> arg, code |-> response.code, body |-> response.body]

ReadFrame ==
    /\ UNCHANGED <<store, queue, req, resp, apiKey, runs, pc, msg, prior, calls, ret>>
    /\ UNCHANGED locals

\* Faulty variant of get_status (sensitivity of C15): the read commits the
\* row it loaded, which refreshes updated_at.
get_statusTouching ==
    /\ \E id \in TaskIds :
          /\ answer' = Answer("get_status", id, GetStatusResponse(id))
          /\ store' = IF Exists(id) THEN [store EXCEPT ![id] = Touch(@)] ELSE store
    /\ UNCHANGED <<queue, req, resp, apiKey, runs, pc, msg, prior, calls, ret>>
    /\ UNCHANGED locals

get_status ==
    /\ \E id \in TaskIds : answer' = Answer("get_status", id, GetStatusResponse(id))
    /\ ReadFrame

get_results ==
    /\ \E id \in TaskIds : answer' = Answer("get_results", id, GetResultsResponse(id))
    /\ ReadFrame

list_tasks ==
    /\ \E limit \in Limits : answer' = Answer("list_tasks", limit, ListTasksResponse(limit))
    /\ ReadFrame

-----------------------------------------------------------------------------
(* The worker task analyze_github_pr (tasks.py) *)

Idle == pc \in {"idle", "done"}

\* the function's locals are gone once it has returned or raised
DropLocals ==
    /\ pr_files' = <<>>
    /\ idx' = 0
    /\ file_contents' = {}
    /\ files_reviews' = <<>>
    /\ total_issues' = 0
    /\ critical_issues' = 0

\* Faulty variant of FailRun (sensitivity of C19): the handler re-raises
\* without writing the failed status.
FailRunWithoutWrite(e) ==
    /\ store' = store
    /\ pc' = "done"
    /\ ret' = [kind |-> "raised", value |-> <<e>>]
    /\ DropLocals

\* except Exception: the row, if any, becomes failed with str(e); the task re-raises
FailRun(e) ==
    /\ store' = IF Exists(msg.task_id)
                THEN [store EXCEPT ![msg.task_id] =
                         Touch([@ EXCEPT !.status = FAILED, !.error_message = <<e>>])]
                ELSE store
    /\ pc' = "done"
    /\ ret' = [kind |-> "raised", value |-> <<e>>]
    /\ DropLocals

\* lines 33-40: the broker delivers the head message (and may deliver it
\* again later); the row, if any, becomes processing
StartRun(redeliver) ==
    /\ Idle
    /\ queue # <<>>
    /\ runs < MaxRuns
    /\ redeliver => runs + Len(queue) < MaxRuns
    /\ runs' = runs + 1
    /\ queue' = IF redeliver THEN Append(Tail(queue), Head(queue)) ELSE Tail(queue)
    /\ msg' = Head(queue)
    /\ prior' = IF Exists(Head(queue).task_id)
                THEN store[Head(queue).task_id].status ELSE "absent"
    /\ store' = IF Exists(Head(queue).task_id)
                THEN [store EXCEPT ![Head(queue).task_id] =
                         Touch([@ EXCEPT !.status = PROCESSING])]
                ELSE store
    /\ pc' = "list"
    /\ ret' = NoReturn
    /\ calls' = NoCalls
    /\ UNCHANGED <<req, resp, answer, apiKey>>
    /\ UNCHANGED locals

\* Faulty variant of GetPrFilesRaises (sensitivity of C8): the task retries
\* itself (self.retry) by publishing its message again.
GetPrFilesRaisesRetry ==
    /\ pc = "list"
    /\ calls' = [calls EXCEPT !.list = Append(@, "raised")]
    /\ LET perr == ParseRepoUrlError(msg.repo_url)
       IN  FailRun(IF perr # Null THEN perr[1] ELSE ListError)
    /\ queue' = Append(queue, msg)
    /\ UNCHANGED <<req, resp, answer, apiKey, runs, msg, prior>>

\* gh_service.get_pr_files raises (URL parsing, or the HTTP request)
GetPrFilesRaises ==
    /\ pc = "list"
    /\ calls' = [calls EXCEPT !.list = Append(@, "raised")]
    /\ LET perr == ParseRepoUrlError(msg.repo_url)
       IN  FailRun(IF perr # Null THEN perr[1] ELSE ListError)
    /\ UNCHANGED <<queue, req, resp, answer, apiKey, runs, msg, prior>>

\* len(pr_files[:10])
FetchCount(fs) == Min(Len(fs), FetchLimit)

\* Faulty variant of GetPrFilesReturns (sensitivity of C4): the empty list
\* is not an error and the run goes on with no files.
GetPrFilesReturnsEmptyAllowed(fs) ==
    /\ pc = "list"
    /\ ParseRepoUrlError(msg.repo_url) = Null
    /\ calls' = [calls EXCEPT !.list = Append(@, IF fs = <<>> THEN "empty" ELSE "files")]
    /\ pr_files' = fs
    /\ idx' = 1
    /\ pc' = IF FetchCount(fs) = 0 THEN "key" ELSE "fetch"
    /\ UNCHANGED <<store, ret, file_contents, files_reviews, total_issues,
                   critical_issues>>
    /\ UNCHANGED <<queue, req, resp, answer, apiKey, runs, msg, prior>>

\* gh_service.get_pr_files returns fs; an empty list raises "No files found in PR"
GetPrFilesReturns(fs) ==
    /\ pc = "list"
    /\ ParseRepoUrlError(msg.repo_url) = Null
    /\ calls' = [calls EXCEPT !.list = Append(@, IF fs = <<>> THEN "empty" ELSE "files")]
    /\ IF fs = <<>>
       THEN FailRun(NoFilesError)
       ELSE /\ pr_files' = fs
            /\ idx' = 1
            /\ pc' = IF FetchCount(fs) = 0 THEN "key" ELSE "fetch"
            /\ UNCHANGED <<store, ret, file_contents, files_reviews,
                           total_issues, critical_issues>>
    /\ UNCHANGED <<queue, req, resp, answer, apiKey, runs, msg, prior>>


\* Faulty variant of FetchContent (sensitivity of C16): the content of
\* every file is requested, the suffix test comes after the fetch.
FetchContentUnfiltered(res) ==
    /\ pc = "fetch"
    /\ idx <= FetchCount(pr_files)
    /\ res # "skip"
    /\ LET name == pr_files[idx].filename
           next == IF idx = FetchCount(pr_files) THEN "key" ELSE "fetch"
       IN  /\ calls' = [calls EXCEPT !.content =
                            Append(@, Call(name, IF res = "error" THEN "error" ELSE "ok"))]
           /\ IF res = "error"
              THEN FailRun(ContentError)
              ELSE /\ file_contents' = IF res = "text" /\ IsCodeFile(name)
                                       THEN file_contents \cup {name}
                                       ELSE file_contents
                   /\ idx' = idx + 1
                   /\ pc' = next
                   /\ UNCHANGED <<store, ret, pr_files, files_reviews,
                                  total_issues, critical_issues>>
    /\ UNCHANGED <<queue, req, resp, answer, apiKey, runs, msg, prior>>

\* one iteration of "for file_data in pr_files[:10]"
FetchContent(res) ==
    /\ pc = "fetch"
    /\ idx <= FetchCount(pr_files)
    /\ LET name == pr_files[idx].filename
           next == IF idx = FetchCount(pr_files) THEN "key" ELSE "fetch"
       IN  IF ~IsCodeFile(name)
           THEN /\ res = "skip"
                /\ idx' = idx + 1
                /\ pc' = next
                /\ UNCHANGED <<store, ret, file_contents, calls, pr_files,
                               files_reviews, total_issues, critical_issues>>
           ELSE /\ res # "skip"
                /\ calls' = [calls EXCEPT !.content =
                                 Append(@, Call(name, IF res = "error" THEN "error" ELSE "ok"))]
                /\ IF res = "error"
                   THEN FailRun(ContentError)
                   ELSE /\ file_contents' = IF res = "text"
                                            THEN file_contents \cup {name}
                                            ELSE file_contents
                        /\ idx' = idx + 1
                        /\ pc' = next
                        /\ UNCHANGED <<store, ret, pr_files, files_reviews,
                                       total_issues, critical_issues>>
    /\ UNCHANGED <<queue, req, resp, answer, apiKey, runs, msg, prior>>

\* lines 62-66: if not settings.OPENAI_API_KEY: raise.  review_pr_files reads
\* the file entries alone, so file_contents is not read after this point.
CheckApiKey ==
    /\ pc = "key"
    /\ IF ~apiKey
       THEN FailRun(NoKeyError)
       ELSE /\ pc' = IF Len(pr_files) = 0 THEN "write" ELSE "analyze"
            /\ idx' = 1
            /\ file_contents' = {}
            /\ UNCHANGED <<store, ret, pr_files, files_reviews,
                           total_issues, critical_issues>>
    /\ UNCHANGED <<queue, req, resp, answer, apiKey, runs, msg, prior, calls>>

AnalysisOutcomes ==
    [kind : {"ok"}, issues : IssueLists]
        \cup {[kind |-> "unparseable", issues |-> <<>>],
              [kind |-> "error", issues |-> <<>>],
              [kind |-> "skip", issues |-> <<>>]}

\* JSON that parses, with an "issues" list that holds a non-object
MalformedOutcomes ==
    {[kind |-> "malformed", issues |-> <<[type |-> "bug"], NonDictIssue>>]}

\* Faulty variant of AnalyzeCode (sensitivity of C7): output that does not
\* parse is raised like a provider error.
AnalyzeCodeParseErrorRaised(res) ==
    IF res.kind = "ok" THEN <<[issues |-> res.issues]>> ELSE Null

\* AICodeReviewer.analyze_code: the review it returns for a provider outcome
\* (a JSONDecodeError is answered with {"issues": []}, anything else re-raised)
AnalyzeCode(res) ==
    IF res.kind \in {"ok", "malformed"} THEN <<[issues |-> res.issues]>>
    ELSE IF res.kind = "unparseable" THEN <<[issues |-> <<>>]>>
    ELSE Null

\* Faulty variant of ReviewFile (sensitivity of C17): the review is put in
\* front of the earlier ones.
ReviewFilePrepending(res) ==
    /\ pc = "analyze"
    /\ idx <= Len(pr_files)
    /\ LET f == pr_files[idx]
           review == AnalyzeCode(res)
       IN  IF ~IsCodeFile(f.filename) \/ ~f.patch
           THEN /\ res.kind = "skip"
                /\ UNCHANGED <<files_reviews, total_issues, critical_issues, calls>>
           ELSE /\ res.kind # "skip"
                /\ calls' = [calls EXCEPT !.analysis = Append(@, Call(f.filename, res.kind))]
                /\ IF review = Null
                   THEN UNCHANGED <<files_reviews, total_issues, critical_issues>>
                   ELSE /\ files_reviews' =
                              <<[name |-> f.filename, issues |-> review[1].issues]>>
                                  \o files_reviews
                        /\ total_issues' = total_issues + Len(review[1].issues)
                        /\ critical_issues' =
                              IF \A i \in 1..Len(review[1].issues) :
                                     IsDict(review[1].issues[i])
                              THEN critical_issues + CountBugs(review[1].issues)
                              ELSE critical_issues
    /\ idx' = idx + 1
    /\ pc' = IF idx = Len(pr_files) THEN "write" ELSE "analyze"
    /\ UNCHANGED <<store, queue, req, resp, answer, apiKey, runs, msg, prior,
                   ret, pr_files, file_contents>>

\* one iteration of "for file_info in files_data" of review_pr_files.  The
\* review is appended and total_issues added before the sum over the issues
\* is taken; when that sum raises, "except Exception: continue" goes on to
\* the next file with critical_issues as it was.
ReviewFile(res) ==
    /\ pc = "analyze"
    /\ idx <= Len(pr_files)
    /\ LET f == pr_files[idx]
           review == AnalyzeCode(res)
       IN  IF ~IsCodeFile(f.filename) \/ ~f.patch
           THEN /\ res.kind = "skip"
                /\ UNCHANGED <<files_reviews, total_issues, critical_issues, calls>>
           ELSE /\ res.kind # "skip"
                /\ calls' = [calls EXCEPT !.analysis = Append(@, Call(f.filename, res.kind))]
                /\ IF review = Null
                   THEN UNCHANGED <<files_reviews, total_issues, critical_issues>>
                   ELSE /\ files_reviews' =
                              Append(files_reviews,
                                     [name |-> f.filename, issues |-> review[1].issues])
                        /\ total_issues' = total_issues + Len(review[1].issues)
                        /\ critical_issues' =
                              IF \A i \in 1..Len(review[1].issues) :
                                     IsDict(review[1].issues[i])
                              THEN critical_issues + CountBugs(review[1].issues)
                              ELSE critical_issues
    /\ idx' = idx + 1
    /\ pc' = IF idx = Len(pr_files) THEN "write" ELSE "analyze"
    /\ UNCHANGED <<store, queue, req, resp, answer, apiKey, runs, msg, prior,
                   ret, pr_files, file_contents>>

\* analysis_results, the value the task returns
analysis_results == ReviewResult(files_reviews, total_issues, critical_issues)

\* lines 69-77: the row, if any, becomes completed.  task.results is not a
\* column of CodeReviewTask (the column is "result"), so the commit stores
\* the status alone.
WriteResults ==
    /\ pc = "write"
    /\ store' = IF Exists(msg.task_id)
                THEN [store EXCEPT ![msg.task_id] =
                         Touch([@ EXCEPT !.status = COMPLETED])]
                ELSE store
    /\ pc' = "done"
    /\ ret' = [kind |-> "returned", value |-> <<analysis_results>>]
    /\ DropLocals
    /\ UNCHANGED <<queue, req, resp, answer, apiKey, runs, msg, prior, calls>>

analyze_github_pr ==
    \/ \E redeliver \in BOOLEAN : StartRun(redeliver)
    \/ GetPrFilesRaises
    \/ \E fs \in FileLists : GetPrFilesReturns(fs)
    \/ \E res \in {"skip", "text", "empty", "error"} : FetchContent(res)
    \/ CheckApiKey
    \/ \E res \in AnalysisOutcomes : ReviewFile(res)
    \/ WriteResults

Next ==
    \/ analyze_pr
    \/ DirectDelay
    \/ analyze_github_pr

Spec == Init /\ [][Next]_vars

-----------------------------------------------------------------------------
(* One run of the worker over longer file lists: a list of more files than *)
(* the content loop reads, and a list of three code files around a         *)
(* non-code file.                                                          *)

CodeFile(stem, suffix) == [filename |-> [stem |-> stem, suffix |-> suffix], patch |-> TRUE]

LongStems == <<"f01", "f02", "f03", "f04", "f05", "f06", "f07", "f08", "f09",
               "f10", "f11">>

\* FetchLimit + 1 files; the second is not a code file
LongList ==
    [i \in 1..(FetchLimit + 1) |->
        CodeFile(LongStems[i], IF i = 2 THEN ".md" ELSE ".py")]

MixedList == <<CodeFile("a", ".py"), CodeFile("README", ".md"),
               CodeFile("b", ".ts"), CodeFile("c", ".py")>>

PipelineLists == FileLists \cup {LongList, MixedList}

PipelineOutcomes == AnalysisOutcomes \cup MalformedOutcomes

\* the answers drawn for a list longer than FetchLimit
PlainOutcomes == {[kind |-> "ok", issues |-> <<>>], [kind |-> "skip", issues |-> <<>>]}

NextPipeline ==
    \/ SubmitFrom({GoodUrl}, PrNumbers, Tokens)
    \/ StartRun(FALSE)
    \/ GetPrFilesRaises
    \/ \E fs \in PipelineLists : GetPrFilesReturns(fs)
    \/ \E res \in {"skip", "text", "empty", "error"} :
          /\ Len(pr_files) > FetchLimit => res \in {"skip", "text", "error"}
          /\ FetchContent(res)
    \/ CheckApiKey
    \/ \E res \in PipelineOutcomes :
          /\ Len(pr_files) > FetchLimit => res \in PlainOutcomes
          /\ ReviewFile(res)
    \/ WriteResults

SpecPipeline == Init /\ [][NextPipeline]_vars

-----------------------------------------------------------------------------
(* The submit endpoint under requests that differ in every field; the      *)
(* worker's provider fails or returns the empty list.                      *)

SubmitPrNumbers == {7, 12}
SubmitTokens == {"none", "ghp_token"}

NextSubmit ==
    \/ SubmitFrom(Urls, SubmitPrNumbers, SubmitTokens)
    \/ \E redeliver \in BOOLEAN : StartRun(redeliver)
    \/ GetPrFilesRaises
    \/ GetPrFilesReturns(<<>>)

SpecSubmit == Init /\ [][NextSubmit]_vars

-----------------------------------------------------------------------------
(* The three GET endpoints beside the submit endpoint and a worker whose   *)
(* provider fails or returns one code file.                                *)

ReadFileLists == {<<[filename |-> [stem |-> "a", suffix |-> ".py"], patch |-> TRUE]>>}

ReadOutcomes == {[kind |-> "ok", issues |-> <<[type |-> "bug"]>>]}

NextRead ==
    \/ analyze_pr
    \/ get_status
    \/ get_results
    \/ list_tasks
    \/ StartRun(FALSE)
    \/ GetPrFilesRaises
    \/ \E fs \in ReadFileLists : GetPrFilesReturns(fs)
    \/ FetchContent("text")
    \/ CheckApiKey
    \/ \E res \in ReadOutcomes : ReviewFile(res)
    \/ WriteResults

SpecRead == Init /\ [][NextRead]_vars

-----------------------------------------------------------------------------
(* Progress of the worker.  The worker process runs the task it started to *)
(* its end and takes the next message when it is free.  SpecLive assumes   *)
(* in addition that every provider call returns or raises.  SpecHang       *)
(* assumes that of no request to the source provider: session.get is       *)
(* called without a timeout, so the request returns only if the provider   *)
(* answers.  The analysis client is given no timeout either; SpecHang      *)
(* still lets its calls end, so the runs it leaves in processing are the   *)
(* ones that wait for the source provider.                                 *)

LiveFileLists == ReadFileLists \cup {<<>>}

LiveOutcomes == {[kind |-> "ok", issues |-> <<[type |-> "bug"]>>],
                 [kind |-> "error", issues |-> <<>>]}

Deliver == \E redeliver \in BOOLEAN : StartRun(redeliver)

SourceAnswers ==
    \/ GetPrFilesRaises
    \/ \E fs \in LiveFileLists : GetPrFilesReturns(fs)
    \/ \E res \in {"text", "error"} : FetchContent(res)

AnalysisAnswers == \E res \in LiveOutcomes : ReviewFile(res)

NextLive ==
    \/ analyze_pr
    \/ Deliver
    \/ SourceAnswers
    \/ CheckApiKey
    \/ AnalysisAnswers
    \/ WriteResults

SpecLive ==
    /\ Init
    /\ [][NextLive]_vars
    /\ WF_vars(Deliver)
    /\ WF_vars(SourceAnswers)
    /\ WF_vars(CheckApiKey)
    /\ WF_vars(AnalysisAnswers)
    /\ WF_vars(WriteResults)

SpecHang ==
    /\ Init
    /\ [][NextLive]_vars
    /\ WF_vars(Deliver)
    /\ WF_vars(CheckApiKey)
    /\ WF_vars(AnalysisAnswers)
    /\ WF_vars(WriteResults)

-----------------------------------------------------------------------------
(* Shared vocabulary of the properties *)

\* a step of the worker (every step of the task moves pc, idx or runs)
WorkerStep == <<pc, idx, runs>>' # <<pc, idx, runs>>

\* the run has ended and its job has a row
RunEndedFor(id) == pc = "done" /\ msg.task_id = id /\ Exists(id)

StatusPath == {<<PENDING, PROCESSING>>, <<PROCESSING, COMPLETED>>,
               <<PROCESSING, FAILED>>}

-----------------------------------------------------------------------------
(* C1: a job's status changes only along pending -> processing,            *)
(* processing -> completed, processing -> failed, and never changes once   *)
(* it is completed or failed, duplicate deliveries included.               *)
C1_StatusFollowsPath ==
    [][\A id \in DOMAIN store :
          store'[id].status # store[id].status
              => <<store[id].status, store'[id].status>> \in StatusPath]_vars

(* C2: a completed job has a non-empty result and an empty error detail,   *)
(* a failed job has a non-empty error detail and an empty result.          *)
C2_ExactlyOneOutcomeField ==
    \A id \in DOMAIN store :
        /\ store[id].status = COMPLETED
              => store[id].result # Null /\ store[id].error_message = Null
        /\ store[id].status = FAILED
              => store[id].error_message # Null /\ store[id].result = Null

(* C3: a run for a job whose status is already completed or failed leaves  *)
(* the job's row unchanged and calls neither provider.                     *)
C3_TerminalRerunIsNoop ==
    [][(WorkerStep /\ prior' \in Terminal)
          => /\ store'[msg'.task_id] = store[msg'.task_id]
             /\ calls' = NoCalls]_vars

(* C4: when the source provider returns an empty changed-file list the run *)
(* ends with the job completed, carrying an empty review result.           *)
EmptyReview == ReviewResult(<<>>, 0, 0)

ContentFetchFailed ==
    /\ Len(calls'.content) = Len(calls.content) + 1
    /\ calls'.content[Len(calls'.content)].reply = "error"

C5_FetchFailureIsNotFatal ==
    [][ContentFetchFailed
          => /\ pc' \in {"fetch", "key"}
             /\ store' = store]_vars

(* C6: when at least one file reaches the analysis step and analysis fails *)
(* for every such file, the job ends failed with a non-empty error detail. *)
AnalysisFailed(c) == c.reply \in {"error", "unparseable"}

AllAnalysesFailed ==
    /\ calls.analysis # <<>>
    /\ \A i \in 1..Len(calls.analysis) : AnalysisFailed(calls.analysis[i])

C6_AllFailedEscalates ==
    \A id \in DOMAIN store :
        (RunEndedFor(id) /\ AllAnalysesFailed)
            => /\ store[id].status = FAILED
               /\ store[id].error_message # Null

(* C7: a per-file analysis failure is handled the same way whether the     *)
(* provider raised an error or returned output that does not parse: the    *)
(* file is omitted from the per-file reviews.                              *)
Reviewed(name) ==
    \E i \in 1..Len(ret.value[1].files) : ret.value[1].files[i].name = name

NotRaised(c) == c.reply # "error"

C8_ListFailureFailsJob ==
    [][(pc = "list" /\ calls'.list = <<"raised">>)
          => /\ pc' = "done"
             /\ ret'.kind = "raised"
             /\ ret'.value # Null
             /\ ret'.value[1] # ""
             /\ calls'.content = <<>>
             /\ calls'.analysis = <<>>
             /\ queue' = queue
             /\ runs' = runs
             /\ Exists(msg.task_id)
                   => /\ store[msg.task_id].status = PROCESSING
                      /\ store'[msg.task_id].status = FAILED
                      /\ store'[msg.task_id].error_message = ret'.value]_vars

C8_Witness ==
    /\ pc = "done"
    /\ calls.list = <<"raised">>
    /\ msg.repo_url = GoodUrl
    /\ Exists(msg.task_id)
    /\ store[msg.task_id].status = FAILED
    /\ store[msg.task_id].error_message = <<ListError>>

(* C9: a run that finds no row for its job identifier aborts at once: it   *)
(* calls neither provider and creates or modifies no row.                  *)
C9_MissingJobAborts ==
    [][(WorkerStep /\ prior' = "absent")
          => /\ store' = store
             /\ calls' = NoCalls]_vars

(* C10: a submission rejected because its repository reference is invalid  *)
(* creates no row and queues nothing: store and queue are unchanged.       *)
C10_RejectionChangesNothing ==
    [][(resp' # resp /\ resp'.detail = InvalidUrlDetail)
          => store' = store /\ queue' = queue]_vars

C10_Witness ==
    /\ resp.detail = InvalidUrlDetail
    /\ DOMAIN store # {}
    /\ queue # <<>>

(* C11: every repository reference for which a job row exists is one that  *)
(* GitHubService._parse_repo_url accepts: the submit endpoint rejects      *)
(* every reference from which owner and repository cannot be parsed.       *)
C11_CreatedJobsAreParseable ==
    \A id \in DOMAIN store : ParseRepoUrlError(store[id].repo_url) = Null

(* C12: every accepted submit creates exactly one row, under an identifier *)
(* that is not empty and that no earlier row has, with status pending; the *)
(* response carries that identifier; a row, once created, keeps its        *)
(* identifier (no identifier ever leaves the table).                       *)
RowCreated == DOMAIN store' # DOMAIN store

Accepted == resp'.code = 200 /\ (resp' # resp \/ RowCreated)

C14_ResultsReadBack ==
    \A id \in DOMAIN store :
        (RunEndedFor(id) /\ ret.kind = "returned" /\ store[id].status = COMPLETED)
            => LET r == GetResultsResponse(id)
               IN  /\ r.code = 200
                   /\ r.body[1].status = COMPLETED
                   /\ HasAttribute(r.body[1], "results")
                   /\ r.body[1].results = ret.value[1]

(* C15: a row, once created, is changed only by a step of the worker's run *)
(* for that row's job: the submit endpoint and the GET endpoints leave the *)
(* status, result, error detail and timestamps of every existing row as    *)
(* they were.                                                              *)
C15_OnlyWorkerChangesJobs ==
    [][/\ DOMAIN store \subseteq DOMAIN store'
       /\ \A id \in DOMAIN store :
             store'[id] # store[id] => WorkerStep /\ msg'.task_id = id]_vars

C15_Witness ==
    /\ answer.op = "list_tasks"
    /\ Len(answer.body) = 2
    /\ answer.body[1].task_id = 2
    /\ answer.body[2].status = COMPLETED
    /\ answer.body[2].updated_at = answer.body[2].created_at + 2
    /\ resp.task_id = 2
    /\ store[1].status = COMPLETED

(* C16: no content is requested for a file whose name ends in a non-code   *)
(* suffix, and when the content loop has ended the files whose content was *)
(* requested are all the other changed files, in their original order.     *)
CodeEntry(f) == IsCodeFile(f.filename)

CodeNames(fs) ==
    LET code == SelectSeq(fs, CodeEntry)
    IN  [i \in 1..Len(code) |-> code[i].filename]

RequestedNames == [i \in 1..Len(calls.content) |-> calls.content[i].name]

IsPrefix(a, b) == Len(a) <= Len(b) /\ a = SubSeq(b, 1, Len(a))

FirstFiles(fs) == SubSeq(fs, 1, Min(Len(fs), FetchLimit))

RECURSIVE IsSubSeq(_, _)
IsSubSeq(a, b) ==
    IF a = <<>> THEN TRUE
    ELSE IF b = <<>> THEN FALSE
    ELSE IF Head(a) = Head(b) THEN IsSubSeq(Tail(a), Tail(b))
    ELSE IsSubSeq(a, Tail(b))

NoDuplicates(a) == \A i, j \in 1..Len(a) : a[i] = a[j] => i = j

ReviewNames(reviews) == [i \in 1..Len(reviews) |-> reviews[i].name]

AnalysedNames == [i \in 1..Len(calls.analysis) |-> calls.analysis[i].name]

C17_ReviewsKeepFilteredOrder ==
    /\ pc \in {"analyze", "write"}
          => /\ IsSubSeq(ReviewNames(files_reviews), CodeNames(pr_files))
             /\ IsSubSeq(AnalysedNames, CodeNames(pr_files))
             /\ NoDuplicates(ReviewNames(files_reviews))
    /\ pc = "write" => IsSubSeq(ReviewNames(analysis_results.files), AnalysedNames)
    /\ (pc = "done" /\ ret.kind = "returned")
          => /\ IsSubSeq(ReviewNames(ret.value[1].files), AnalysedNames)
             /\ NoDuplicates(ReviewNames(ret.value[1].files))

C17_Witness ==
    /\ pc = "done"
    /\ ret.kind = "returned"
    /\ Len(ret.value[1].files) = 2
    /\ ret.value[1].files[1].name.stem = "a"
    /\ ret.value[1].files[2].name.stem = "c"
    /\ Len(calls.analysis) = 3
    /\ calls.analysis[2].reply = "error"

(* C18: in every review result the summary's file count is the number of   *)
(* per-file reviews, its issue count is the sum of the numbers of issues   *)
(* of the per-file reviews, and its bug count is the number of those       *)
(* issues whose category is bug.                                           *)
RECURSIVE SumIssues(_)
SumIssues(reviews) ==
    IF reviews = <<>> THEN 0
    ELSE Len(Head(reviews).issues) + SumIssues(Tail(reviews))

IsBug(issue) == IsDict(issue) /\ issue.type = "bug"

RECURSIVE SumBugs(_)
SumBugs(reviews) ==
    IF reviews = <<>> THEN 0
    ELSE Len(SelectSeq(Head(reviews).issues, IsBug)) + SumBugs(Tail(reviews))

SummaryMatches(result) ==
    /\ result.summary.total_files = Len(result.files)
    /\ result.summary.total_issues = SumIssues(result.files)
    /\ result.summary.critical_issues = SumBugs(result.files)

C18_SummaryCountsMatchReviews ==
    (pc = "done" /\ ret.kind = "returned") => SummaryMatches(ret.value[1])

(* C19: when the worker keeps running and every provider call returns or   *)
(* raises, every message queued or being run for a job that has a row is   *)
(* followed by the end of a run for that job with the row completed or     *)
(* failed.                                                                 *)
Scheduled(id) ==
    \/ \E i \in 1..Len(queue) : queue[i].task_id = id
    \/ ~Idle /\ msg.task_id = id

EndedTerminal(id) == RunEndedFor(id) /\ store[id].status \in Terminal

C19_ScheduledRunsEndTerminal ==
    \A id \in 1..MaxJobs : (Exists(id) /\ Scheduled(id)) ~> EndedTerminal(id)

C19_Witness ==
    /\ EndedTerminal(2)
    /\ store[1].status \in Terminal
    /\ runs = MaxRuns
    /\ queue = <<>>

(* C20: a job does not stay in processing when the source provider never   *)
(* answers a request: every job in processing is eventually completed or   *)
(* failed on the worker's own account.                                     *)
C20_ProcessingEndsWithoutAnswer ==
    \A id \in 1..MaxJobs :
        (Exists(id) /\ store[id].status = PROCESSING)
            ~> (Exists(id) /\ store[id].status \in Terminal)

(* C21: a submission whose repository reference fails validation is        *)
(* answered with status 400, and only such a submission is; a submission   *)
(* that passes validation is answered with 200, or with 500 when the       *)
(* commit or the publishing of the task fails.                             *)
C21_RejectionAnswered400 ==
    req # NoRequest
        => /\ ~ContainsGithub(req.repo_url) => resp.code = 400
           /\ ContainsGithub(req.repo_url) => resp.code \in {200, 500}

(* C22: a submit call that answers with a failure leaves no row it created *)
(* in the table, so that every pending row has a message in the queue or a *)
(* run in progress.                                                        *)
C22_NoRowAfterFailedSubmit ==
    [][/\ RowCreated => resp'.code = 200
       /\ \A id \in DOMAIN store' :
             store'[id].status = PENDING => Scheduled(id)']_vars

====
